---- MODULE Spec2Model ----
(***************************************************************************)
(* The hinted-handoff Service of services/hh/service.go: the processor map *)
(* behind its reader-writer lock, Open, Close, WriteShard and the          *)
(* background purge task.  NodeProcessor (Open, Close, WriteShard,         *)
(* LastModified, Purge) is not part of service.go; its methods are         *)
(* modelled from their contract in spec.md 4.2.  The same file carries the *)
(* engine's MaxAggregator and MinAggregator, modelled after the service.   *)
(***************************************************************************)
EXTENDS Integers, Sequences, FiniteSets, Bags, TLC

\* ---------------------------------------------------------------- bounds

\* Node IDs are 1..MaxNode.
MaxNode == 2
\* time.Now() returns a value in 0..MaxNow.
MaxNow == 1
\* cfg.MaxAge, in clock units.
MaxAge == 0
\* WriteShard is called at most MaxReq times, by any number of callers at once.
MaxReq == 2

Nodes == 1..MaxNode
\* Open is called at most MaxOpens times when it can be called again.
MaxOpens == 2

\* The purge tasks: a call of Open starts at most one.
Tasks == 1..MaxOpens
\* What a reading of the wall clock can be; the clock can be set, so a
\* reading does not bound the next one.
Times == 0..MaxNow

\* The integer field of a point holds a value in -MaxVal..MaxVal.
MaxVal == 1
\* AggregatePoint is called at most MaxPoints times.
MaxPoints == 3

FieldInts == (0 - MaxVal)..MaxVal
\* The series names and the group keys of a query.
SeriesNames == {"cpu", "mem"}
Groups == {"east", "west"}

\* ------------------------------------------------- names of root children

Digits == <<"0", "1", "2", "3", "4", "5", "6", "7", "8", "9">>

IsDigit(c) == \E i \in 1..10 : Digits[i] = c

DigitVal(c) == (CHOOSE i \in 1..10 : Digits[i] = c) - 1

\* The byte order ReadDir sorts names by: digits come before letters.
CharCode(c) == IF IsDigit(c) THEN 48 + DigitVal(c) ELSE 120

\* strconv.ParseUint(name, 10, 64): the empty name and any non-digit fail;
\* otherwise the digits are accumulated base 10 (no name of the model is long
\* enough to overflow 64 bits).
RECURSIVE ParseAcc(_, _)
ParseAcc(name, acc) ==
    IF name = <<>> THEN [ok |-> TRUE, val |-> acc]
    ELSE IF ~IsDigit(Head(name)) THEN [ok |-> FALSE, val |-> 0]
    ELSE ParseAcc(Tail(name), acc * 10 + DigitVal(Head(name)))

ParseUint(name) ==
    IF name = <<>> THEN [ok |-> FALSE, val |-> 0] ELSE ParseAcc(name, 0)

\* fmt.Sprintf("%d", nodeID), the last component of pathforNode.
RECURSIVE FormatUint(_)
FormatUint(n) ==
    IF n < 10 THEN <<Digits[n + 1]>>
    ELSE FormatUint(n \div 10) \o <<Digits[(n % 10) + 1]>>

pathforNode(nodeID) == FormatUint(nodeID)

\* The root directories Open may find: an empty one, or one that holds a child
\* whose name is no number and the directories of some nodes.
NodeDirs == {FormatUint(n) : n \in Nodes}
Roots == {{}} \cup {S \cup {<<"x">>} : S \in SUBSET NodeDirs}

RECURSIVE LexLess(_, _)
LexLess(a, b) ==
    IF a = <<>> THEN b # <<>>
    ELSE IF b = <<>> THEN FALSE
    ELSE IF CharCode(Head(a)) # CharCode(Head(b))
         THEN CharCode(Head(a)) < CharCode(Head(b))
    ELSE LexLess(Tail(a), Tail(b))

\* ioutil.ReadDir: the children sorted by name.
RECURSIVE ReadDir(_)
ReadDir(S) ==
    IF S = {} THEN <<>>
    ELSE LET m == CHOOSE x \in S : \A y \in S \ {x} : LexLess(x, y)
         IN <<m>> \o ReadDir(S \ {m})

\* ------------------------------------------------------------------ state

VARIABLES
    enabled,      \* cfg.Enabled
    mapNil,       \* s.processors is the nil map
    processors,   \* s.processors: node ID -> processor instance, 0 = no entry
    np,           \* the NodeProcessor instances ever constructed, by instance
    dir,          \* the children of cfg.Dir on disk
    qtime,        \* modification time of each node's queue on disk
    closing,      \* s.closing: a channel id, 0 = nil
    chans,        \* number of channels made so far
    closedChans,  \* the channels that have been closed
    wg,           \* s.wg's counter
    muW,          \* holder of s.mu's write lock, <<>> = none
    muR,          \* number of holders of s.mu's read lock
    ctl,          \* the caller of Open and Close: where it is in Close (pc),
                  \* what its call of Open returned ("no": not called), and
                  \* whether Close has returned nil with no Open after it
    wr,           \* the calls of WriteShard in flight, a bag: callers have no
                  \* identity, so two calls at the same point for the same
                  \* owner differ in nothing
    started,      \* number of calls of WriteShard made so far
    pt,           \* the purge tasks (goroutines of purgeInactiveProcessors)
    panicked,     \* "" or the run-time panic that ended the process
    statReq,      \* statMap[write_shard_req]
    ev            \* what the step just taken returned from Open or Close,
                  \* the error it returned from WriteShard, or the line it
                  \* wrote to the log; NoEvent when there is none

VARIABLES
    aggregator,   \* the MaxAggregator or MinAggregator of a query: its kind,
                  \* fieldType and values; NoAggregator when there is none
    points,       \* the field values passed to AggregatePoint so far, by
                  \* series and group
    npoints       \* number of calls of AggregatePoint so far

aggVars == <<aggregator, points, npoints>>

svcVars == <<enabled, mapNil, processors, np, dir, qtime, closing, chans,
             closedChans, wg, muW, muR, ctl, wr, started, pt, panicked,
             statReq, ev>>

vars == <<enabled, mapNil, processors, np, dir, qtime, closing, chans,
          closedChans, wg, muW, muR, ctl, wr, started, pt, panicked, statReq,
          ev, aggregator, points, npoints>>

NoEvent == [type |-> "none"]

\* The entries of the processor map: ranging over the nil map visits nothing.
Keys == {k \in Nodes : processors[k] # 0}

\* A Lock that does not wait for the holders of the read lock.
MuFreeIgnoringReaders == muW = <<>>

\* s.mu.Lock() can go through: nobody holds the lock, for writing or reading.
MuFree == muW = <<>> /\ muR = 0

\* ------------------------------------------------- NodeProcessor (spec 4.2)

\* A processor as NewNodeProcessor returns it: constructed, not yet opened;
\* by is the method that constructed it.
NewNodeProcessor(nodeID, by) ==
    [node |-> nodeID, st |-> "new", purged |-> FALSE, by |-> by]

\* open(): opens the queue and starts the replay task; AlreadyOpen on an open
\* processor. ok is whether the queue could be opened.
NPOpen(p, ok) ==
    IF p.st = "open" THEN [p |-> p, err |-> "AlreadyOpen"]
    ELSE IF ~ok THEN [p |-> p, err |-> "IOError"]
    ELSE [p |-> [p EXCEPT !.st = "open"], err |-> ""]

\* writeShard(): Closed unless the processor is open; ok is whether the
\* append went through (a successful append sets lastModified to now).
NPWriteShard(p, ok) ==
    IF p.st # "open" THEN "Closed"
    ELSE IF ~ok THEN "IOError"
    ELSE ""

\* lastModified(): the modification time of the processor's queue, or an
\* error.
NPLastModified(p, ok) ==
    IF ok THEN [lm |-> qtime[p.node], err |-> ""]
    ELSE [lm |-> 0, err |-> "IOError"]

\* close(): stops the replay task and closes the queue; idempotent.
NPClose(p, ok) ==
    IF p.st = "closed" THEN [p |-> p, err |-> ""]
    ELSE IF ~ok THEN [p |-> p, err |-> "IOError"]
    ELSE [p |-> [p EXCEPT !.st = "closed"], err |-> ""]

\* purge(): only legal after close; deletes the on-disk state.
NPPurge(p, ok) ==
    IF p.st # "closed" THEN [p |-> p, err |-> "NotClosed"]
    ELSE IF ~ok THEN [p |-> p, err |-> "IOError"]
    ELSE [p |-> [p EXCEPT !.purged = TRUE], err |-> ""]

\* ------------------------------------------------------------ Service.Open

\* s.processors[nodeID] = n faults when the map is nil: NewService never
\* makes the map.
InsertFaults(isNil) == isNil

\* The loop of Open over the directory listing. acc carries the map, the
\* instances, the disk and the outcome so far; failAt is the child whose
\* processor fails to open (<<>>: none).
RECURSIVE OpenLoop(_, _, _)
OpenLoop(files, acc, failAt) ==
    IF files = <<>> \/ acc.res # "nil" THEN acc
    ELSE LET file == Head(files)
             parsed == ParseUint(file)
         IN IF ~parsed.ok THEN OpenLoop(Tail(files), acc, failAt)
            ELSE LET nodeID == parsed.val
                     n == NewNodeProcessor(nodeID, "Open")
                     o == NPOpen(n, file # failAt)
                     id == Len(acc.np) + 1
                 IN IF o.err # ""
                    THEN [acc EXCEPT !.np = Append(@, o.p), !.res = "err"]
                    ELSE IF InsertFaults(mapNil)
                    THEN [acc EXCEPT !.np = Append(@, o.p),
                                     !.dir = @ \cup {pathforNode(nodeID)},
                                     !.res = "panic"]
                    ELSE OpenLoop(Tail(files),
                                  [acc EXCEPT !.np = Append(@, o.p),
                                              !.dir = @ \cup {pathforNode(nodeID)},
                                              !.procs[nodeID] = id],
                                  failAt)

NumericChildren(S) == {f \in S : ParseUint(f).ok}

\* The record of a call that returns res.
Returns(call, res) == [type |-> call, err |-> res, node |-> 0]

\* An Open that makes the closing channel before it looks at cfg.Enabled.
ClosingMadeFirst(on, ch, fresh) == fresh

\* s.closing after Open's first lines: s.closing = make(chan struct{}) comes
\* after the return for a disabled service. ch is the channel s.closing
\* holds, fresh the one make returns.
ClosingAfterOpen(on, ch, fresh) == IF on THEN fresh ELSE ch

\* Open with the feature disabled: success and nothing else.
OpenDisabled ==
    /\ panicked = "" /\ ctl.pc = "idle" /\ ctl.opened = "no" /\ MuFree
    /\ ~enabled
    /\ closing' = ClosingAfterOpen(enabled, closing, chans + 1)
    /\ chans' = IF closing' = chans + 1 THEN chans + 1 ELSE chans
    /\ ctl' = [ctl EXCEPT !.opened = "nil", !.closed = FALSE]
    /\ ev' = Returns("Open", "nil")
    /\ UNCHANGED aggVars
    /\ UNCHANGED <<enabled, mapNil, processors, np, dir, qtime, closedChans,
                   wg, muW, muR, wr, started, pt, panicked, statReq>>

\* Open fails before the listing: MkdirAll or ReadDir returned an error. The
\* closing channel has been made already.
OpenDirErrorBody ==
    /\ panicked = "" /\ ctl.pc = "idle" /\ MuFree
    /\ enabled
    /\ closing' = ClosingAfterOpen(enabled, closing, chans + 1)
    /\ chans' = chans + 1
    /\ ctl' = [ctl EXCEPT !.opened = "err", !.closed = FALSE]
    /\ ev' = Returns("Open", "err")
    /\ UNCHANGED aggVars
    /\ UNCHANGED <<enabled, mapNil, processors, np, dir, qtime, closedChans,
                   wg, muW, muR, wr, started, pt, panicked, statReq>>

\* Open past the listing, where the processor of child failAt fails to open
\* (<<>>: none does): one processor per numeric child, then the purge task is
\* started, which enters its select. The whole call runs under s.mu.Lock(),
\* released by the deferred Unlock on every way out.
OpenBody(failAt) ==
    /\ panicked = "" /\ ctl.pc = "idle" /\ MuFree
    /\ enabled
    /\ LET r == OpenLoop(ReadDir(dir),
                         [procs |-> processors, np |-> np, dir |-> dir,
                          res |-> "nil"],
                         failAt)
           j == Cardinality({i \in Tasks : pt[i].pc # "none"}) + 1
       IN /\ closing' = ClosingAfterOpen(enabled, closing, chans + 1)
          /\ chans' = chans + 1
          /\ processors' = r.procs
          /\ np' = r.np
          /\ dir' = r.dir
          /\ panicked' = IF r.res = "panic" THEN "nil map" ELSE ""
          /\ wg' = IF r.res = "nil" THEN wg + 1 ELSE wg
          /\ pt' = IF r.res = "nil"
                   THEN [pt EXCEPT ![j] = [pc |-> "select", ch |-> chans + 1,
                                           todo |-> {}]]
                   ELSE pt
          /\ ctl' = [ctl EXCEPT !.opened = r.res, !.closed = FALSE]
          /\ ev' = Returns("Open", r.res)
    /\ UNCHANGED aggVars
    /\ UNCHANGED <<enabled, mapNil, qtime, closedChans, muW, muR, wr, started,
                   statReq>>

\* The first call of Open.
OpenDirError == ctl.opened = "no" /\ OpenDirErrorBody

OpenWith(failAt) == ctl.opened = "no" /\ OpenBody(failAt)

Open == \E failAt \in NumericChildren(dir) \cup {<<>>} : OpenWith(failAt)

\* Open called on a service on which Open has been called before, whether
\* or not Close was called in between.
OpenAgainDirError ==
    ctl.opened # "no" /\ chans < MaxOpens /\ OpenDirErrorBody

OpenAgain ==
    /\ ctl.opened # "no" /\ chans < MaxOpens
    /\ \E failAt \in NumericChildren(dir) \cup {<<>>} : OpenBody(failAt)

\* ----------------------------------------------------------- Service.Close

\* The loop of Close over the map: first is the entry whose processor's
\* Close returns an error (0: none), before the entries closed ahead of it in
\* the map's iteration order. The loop returns at the first error.
CloseLoop(first, before) ==
    IF first = 0 THEN [called |-> Keys, closed |-> Keys, err |-> FALSE]
    ELSE [called |-> before \cup {first}, closed |-> before, err |-> TRUE]

\* Close from s.mu.Lock() to its return with an error, or to s.wg.Wait().
CloseBeginWith(first, before) ==
    /\ panicked = "" /\ ctl.pc = "idle" /\ MuFree
    /\ first \in {k \in Keys : np[processors[k]].st # "closed"} \cup {0}
    /\ before \subseteq Keys \ {first}
    /\ LET r == CloseLoop(first, before)
       IN /\ np' = [i \in DOMAIN np |->
                      IF \E k \in r.closed : processors[k] = i
                      THEN NPClose(np[i], TRUE).p ELSE np[i]]
          /\ IF r.err
             THEN /\ ev' = Returns("Close", "err")
                  /\ UNCHANGED <<closedChans, muW, ctl, panicked>>
             ELSE IF closing # 0 /\ closing \in closedChans
             THEN \* close of a closed channel
                  /\ panicked' = "close of closed channel"
                  /\ ev' = NoEvent
                  /\ UNCHANGED <<closedChans, muW, ctl>>
             ELSE /\ closedChans' = IF closing # 0
                                    THEN closedChans \cup {closing}
                                    ELSE closedChans
                  /\ muW' = <<"ctl">>
                  /\ ctl' = [ctl EXCEPT !.pc = "wait"]
                  /\ ev' = NoEvent
                  /\ UNCHANGED panicked
    /\ UNCHANGED aggVars
    /\ UNCHANGED <<enabled, mapNil, processors, dir, qtime, closing, chans,
                   wg, muR, wr, started, pt, statReq>>

\* With no error every entry is closed, whatever the order.
CloseBegin ==
    \E first \in Keys \cup {0} :
    \E before \in (IF first = 0 THEN {Keys} ELSE SUBSET (Keys \ {first})) :
        CloseBeginWith(first, before)

\* A Close that leaves s.closing holding the channel it has closed.
ClosingKept(ch) == ch

\* s.closing = nil at the end of Close.
ClosingAfterClose(ch) == 0

\* s.wg.Wait() returns once every purge task has called Done; then
\* s.closing = nil and the deferred Unlock runs.
CloseWait ==
    /\ panicked = "" /\ ctl.pc = "wait" /\ wg = 0
    /\ closing' = ClosingAfterClose(closing)
    /\ muW' = <<>>
    /\ ctl' = [ctl EXCEPT !.pc = "idle", !.closed = TRUE]
    /\ ev' = Returns("Close", "nil")
    /\ UNCHANGED aggVars
    /\ UNCHANGED <<enabled, mapNil, processors, np, dir, qtime, chans,
                   closedChans, wg, muR, wr, started, pt, panicked, statReq>>

\* ------------------------------------------------------ Service.WriteShard

\* A call of WriteShard in flight: where it is (pc), its ownerID, the
\* processor it holds (ref, 0 = nil), and whether it took the creation
\* branch (lazy).
Call(pc, ownerID, ref, lazy) ==
    [pc |-> pc, owner |-> ownerID, ref |-> ref, lazy |-> lazy]

\* The calls in flight that are at pc.
CallsAt(pc) == {c \in BagToSet(wr) : c.pc = pc}

\* The bag of calls once call c has moved on to d, or has returned.
Moved(c, d) == (wr (-) SetToBag({c})) (+) SetToBag({d})
Returned(c) == wr (-) SetToBag({c})

\* A WriteShard that counts the request before it looks at cfg.Enabled.
CountRequestBeforeCheck(n, on) == n + 1

\* s.statMap.Add(writeShardReq, 1) and s.statMap.Add(writeShardReqPoints,
\* len(points)), which come after the return for a disabled service; n stands
\* for both counters.
CountRequest(n, on) == IF on THEN n + 1 ELSE n

\* WriteShard with the feature disabled.
WSDisabled ==
    /\ panicked = "" /\ started < MaxReq /\ ~enabled
    /\ started' = started + 1
    /\ statReq' = CountRequest(statReq, enabled)
    /\ ev' = Returns("WriteShard", "Disabled")
    /\ UNCHANGED aggVars
    /\ UNCHANGED <<enabled, mapNil, processors, np, dir, qtime, closing,
                   chans, closedChans, wg, muW, muR, ctl, wr, pt, panicked>>

\* WriteShard(shardID, ownerID, points) is entered: the request is counted
\* and s.mu.RLock() is taken.
WSBegin(ownerID) ==
    /\ panicked = "" /\ started < MaxReq /\ enabled
    /\ muW = <<>>
    /\ started' = started + 1
    /\ statReq' = CountRequest(statReq, enabled)
    /\ muR' = muR + 1
    /\ wr' = wr (+) SetToBag({Call("lookup", ownerID, 0, FALSE)})
    /\ ev' = NoEvent
    /\ UNCHANGED aggVars
    /\ UNCHANGED <<enabled, mapNil, processors, np, dir, qtime, closing,
                   chans, closedChans, wg, muW, ctl, pt, panicked>>

\* processor, ok := s.processors[ownerID]; s.mu.RUnlock()
WSLookupWith(c) ==
    /\ panicked = "" /\ c \in CallsAt("lookup")
    /\ muR' = muR - 1
    /\ wr' = Moved(c, Call(IF processors[c.owner] # 0
                           THEN "delegate" ELSE "create",
                           c.owner, processors[c.owner], FALSE))
    /\ ev' = NoEvent
    /\ UNCHANGED aggVars
    /\ UNCHANGED <<enabled, mapNil, processors, np, dir, qtime, closing,
                   chans, closedChans, wg, muW, ctl, started, pt, panicked,
                   statReq>>

WSLookup == \E c \in CallsAt("lookup") : WSLookupWith(c)

\* The receiver of the Open call in the creation branch: the variable
\* processor from the lookup, not the p just constructed.
LazyOpenTarget(processor, p) == processor

\* The closure run when the lookup found nothing, for call c, where the new
\* processor's queue can be opened or not (ok): under s.mu.Lock() the lookup
\* is repeated, and a processor is created when it is still absent.
WSCreateWith(c, ok) ==
    /\ panicked = "" /\ c \in CallsAt("create") /\ MuFree
    /\ LET ownerID == c.owner
           processor == processors[ownerID]
       IN IF processor # 0
          THEN /\ wr' = Moved(c, Call("delegate", ownerID, processor, FALSE))
               /\ ev' = NoEvent
               /\ UNCHANGED <<processors, np, dir, panicked>>
          ELSE LET p == Len(np) + 1
                   made == Append(np, NewNodeProcessor(ownerID, "WriteShard"))
                   target == LazyOpenTarget(processor, p)
               IN IF target = 0
                  THEN \* a method call through the nil *NodeProcessor
                       /\ np' = made
                       /\ panicked' = "nil processor"
                       /\ wr' = Moved(c, Call("create", ownerID, 0, TRUE))
                       /\ ev' = NoEvent
                       /\ UNCHANGED <<processors, dir>>
                  ELSE LET o == NPOpen(made[target], ok)
                       IN IF o.err # ""
                          THEN /\ np' = made
                               /\ wr' = Returned(c)
                               /\ ev' = Returns("WriteShard", o.err)
                               /\ UNCHANGED <<processors, dir, panicked>>
                          ELSE /\ np' = [made EXCEPT ![target] = o.p]
                               /\ dir' = dir \cup {pathforNode(ownerID)}
                               /\ ev' = NoEvent
                               /\ IF InsertFaults(mapNil)
                                  THEN /\ panicked' = "nil map"
                                       /\ wr' = Moved(c, Call("create", ownerID,
                                                              0, TRUE))
                                       /\ UNCHANGED processors
                                  ELSE /\ processors' =
                                            [processors EXCEPT ![ownerID] = p]
                                       /\ wr' = Moved(c, Call("delegate",
                                                              ownerID, p, TRUE))
                                       /\ UNCHANGED panicked
    /\ UNCHANGED aggVars
    /\ UNCHANGED <<enabled, mapNil, qtime, closing, chans, closedChans, wg,
                   muW, muR, ctl, started, pt, statReq>>

WSCreate ==
    \E c \in CallsAt("create") :
    \E ok \in (IF LazyOpenTarget(processors[c.owner], Len(np) + 1) # 0
               THEN BOOLEAN ELSE {TRUE}) :
        WSCreateWith(c, ok)

\* What a processor is to a caller that holds it: "live" while it is open,
\* not purged and still the entry of its node; "replaced" when it is open and
\* a later Open has put another processor in its place; "retired" otherwise.
Standing(i) ==
    IF np[i].st = "open" /\ ~np[i].purged /\ processors[np[i].node] = i
    THEN "live"
    ELSE IF np[i].st = "open" /\ ~np[i].purged /\ processors[np[i].node] # 0
    THEN "replaced"
    ELSE "retired"

\* processor.WriteShard(shardID, points) of call c, outside the service lock,
\* where the append goes through or not (ok) and a successful append stamps
\* the queue with the time t it reads; the call's error, if any, is returned
\* as it is.
WSDelegateWith(c, ok, t) ==
    /\ panicked = "" /\ c \in CallsAt("delegate")
    /\ LET i == c.ref
           err == NPWriteShard(np[i], ok)
       IN /\ t \in Times
          /\ qtime' = IF err = "" THEN [qtime EXCEPT ![np[i].node] = t]
                      ELSE qtime
          /\ wr' = Returned(c)
          /\ ev' = IF err = "" THEN NoEvent ELSE Returns("WriteShard", err)
    /\ UNCHANGED aggVars
    /\ UNCHANGED <<enabled, mapNil, processors, np, dir, closing, chans,
                   closedChans, wg, muW, muR, ctl, started, pt, panicked,
                   statReq>>

WSDelegate ==
    \E c \in CallsAt("delegate") :
    \E ok \in (IF np[c.ref].st = "open" THEN BOOLEAN ELSE {TRUE}) :
    \E t \in (IF NPWriteShard(np[c.ref], ok) = "" THEN Times ELSE {0}) :
        WSDelegateWith(c, ok, t)

\* ------------------------------------------- Service.purgeInactiveProcessors

\* A cutoff that is off by one tick: a queue modified exactly MaxAge ago
\* counts as too old.
TooOldOrJustAtCutoff(lm, t) == lm <= t - MaxAge

\* lm.Before(time.Now().Add(-time.Duration(s.cfg.MaxAge)))
TooOld(lm, t) == lm < t - MaxAge

\* A decision that drops the error of the membership lookup: the nil info
\* that comes with the error is read as "departed".
PurgeDecisionDroppingLookupError(lmErr, ans, lm, t) ==
    IF lmErr THEN "LastModified failed"
    ELSE IF ans = "member" THEN "member"
    ELSE IF ~TooOld(lm, t) THEN "young"
    ELSE "retire"

\* The checks of one iteration of the purge loop, in the code's order:
\* lmErr is LastModified's error, ans the directory's answer for the node
\* ("member": info, "departed": nil and no error, "error"), lm the time
\* read, t time.Now(). The result is "retire" or why the entry is passed
\* over.
PurgeDecision(lmErr, ans, lm, t) ==
    IF lmErr THEN "LastModified failed"
    ELSE IF ans = "error" THEN "Node failed"
    ELSE IF ans = "member" THEN "member"
    ELSE IF ~TooOld(lm, t) THEN "young"
    ELSE "retire"

\* A retirement without the two continue statements: the entry is deleted
\* whatever Close and Purge return.
RetireDespiteErrors(p, closeOK, purgeOK) ==
    LET c == NPClose(p, closeOK)
        g == NPPurge(c.p, purgeOK)
    IN [p |-> g.p, calls |-> <<"Close", "Purge">>, removed |-> TRUE]

\* A retirement without the delete: the entry stays in the map.
RetireKeepingEntry(p, closeOK, purgeOK) ==
    LET c == NPClose(p, closeOK)
        g == NPPurge(c.p, purgeOK)
    IN IF c.err # ""
       THEN [p |-> c.p, calls |-> <<"Close">>, removed |-> FALSE]
       ELSE [p |-> g.p, calls |-> <<"Close", "Purge">>, removed |-> FALSE]

\* A retirement that deletes the entry once Close has succeeded, before it
\* calls Purge.
RetireRemovingBeforePurge(p, closeOK, purgeOK) ==
    LET c == NPClose(p, closeOK)
        g == NPPurge(c.p, purgeOK)
    IN IF c.err # ""
       THEN [p |-> c.p, calls |-> <<"Close">>, removed |-> FALSE]
       ELSE [p |-> g.p, calls |-> <<"Close", "Purge">>, removed |-> TRUE]

\* The end of the iteration for an eligible processor: Close, then Purge,
\* then delete(s.processors, k); an error at either call ends the iteration.
Retire(p, closeOK, purgeOK) ==
    LET c == NPClose(p, closeOK)
        g == NPPurge(c.p, purgeOK)
    IN IF c.err # ""
       THEN [p |-> c.p, calls |-> <<"Close">>, removed |-> FALSE]
       ELSE IF g.err # ""
       THEN [p |-> g.p, calls |-> <<"Close", "Purge">>, removed |-> FALSE]
       ELSE [p |-> g.p, calls |-> <<"Close", "Purge">>, removed |-> TRUE]

\* The line an iteration writes to the log: one for a failed LastModified,
\* one for a failed Node, and the same one for a failed Close and a failed
\* Purge; "" when it logs nothing.
Logged(dec, removed) ==
    IF dec = "LastModified failed" THEN "failed to determine LastModified"
    ELSE IF dec = "Node failed" THEN "failed to determine if node is active"
    ELSE IF dec = "retire" /\ ~removed THEN "failed to close node processor"
    ELSE ""

\* A loop that gives up at the first entry it logs a failure for.
AfterVisitStoppingAtFailure(todo, k, line) ==
    IF line # "" THEN {} ELSE todo \ {k}

\* The entries the range has still to visit after the iteration for k, which
\* logged line: every way out of the loop body is a continue or its end.
AfterVisit(todo, k, line) == todo \ {k}

IdleTask == [pc |-> "none", ch |-> 0, todo |-> {}]

\* case <-s.closing: the task returns, and its deferred wg.Done() runs. The
\* channel is the one s.closing held when the select was entered; a receive
\* from the nil channel never completes.
PurgeExit(j) ==
    /\ panicked = "" /\ pt[j].pc = "select"
    /\ pt[j].ch # 0 /\ pt[j].ch \in closedChans
    /\ pt' = [pt EXCEPT ![j].pc = "done"]
    /\ wg' = wg - 1
    /\ ev' = NoEvent
    /\ UNCHANGED aggVars
    /\ UNCHANGED <<enabled, mapNil, processors, np, dir, qtime, closing,
                   chans, closedChans, muW, muR, ctl, wr, started, panicked,
                   statReq>>

\* case <-ticker.C: the task goes on to s.mu.Lock().
PurgeTick(j) ==
    /\ panicked = "" /\ pt[j].pc = "select"
    /\ pt' = [pt EXCEPT ![j].pc = "lock"]
    /\ ev' = NoEvent
    /\ UNCHANGED aggVars
    /\ UNCHANGED <<enabled, mapNil, processors, np, dir, qtime, closing,
                   chans, closedChans, wg, muW, muR, ctl, wr, started,
                   panicked, statReq>>

\* s.mu.Lock() succeeds; the range over s.processors begins.
PurgeLock(j) ==
    /\ panicked = "" /\ pt[j].pc = "lock" /\ MuFree
    /\ muW' = <<"purge", j>>
    /\ pt' = [pt EXCEPT ![j].pc = "body", ![j].todo = Keys]
    /\ ev' = NoEvent
    /\ UNCHANGED aggVars
    /\ UNCHANGED <<enabled, mapNil, processors, np, dir, qtime, closing,
                   chans, closedChans, wg, muR, ctl, wr, started, panicked,
                   statReq>>

\* How one iteration can go: LastModified fails; or the directory answers
\* "member" or "error"; or it answers "departed", time.Now() returns t, and
\* then Close succeeds or fails and after it Purge succeeds or fails.
VisitOutcomes ==
    {[lmOK |-> FALSE, ans |-> "none", t |-> 0, closeOK |-> FALSE,
      purgeOK |-> FALSE]}
    \cup {[lmOK |-> TRUE, ans |-> a, t |-> 0, closeOK |-> FALSE,
           purgeOK |-> FALSE] : a \in {"member", "error"}}
    \cup {[lmOK |-> TRUE, ans |-> "departed", t |-> t, closeOK |-> c,
           purgeOK |-> g] :
            t \in Times,
            <<c, g>> \in {<<TRUE, TRUE>>, <<TRUE, FALSE>>, <<FALSE, FALSE>>}}

\* One iteration of the range, for entry k with outcome out.
PurgeVisitWith(j, k, out) ==
    /\ panicked = "" /\ pt[j].pc = "body" /\ k \in pt[j].todo
    /\ LET i == processors[k]
           lmr == NPLastModified(np[i], out.lmOK)
           dec == PurgeDecision(lmr.err # "", out.ans, lmr.lm, out.t)
           r == IF dec = "retire" THEN Retire(np[i], out.closeOK, out.purgeOK)
                ELSE [p |-> np[i], calls |-> <<>>, removed |-> FALSE]
           line == Logged(dec, r.removed)
       IN /\ np' = [np EXCEPT ![i] = r.p]
          /\ processors' = IF r.removed THEN [processors EXCEPT ![k] = 0]
                           ELSE processors
          /\ dir' = IF r.p.purged THEN dir \ {pathforNode(k)} ELSE dir
          /\ pt' = [pt EXCEPT ![j].todo = AfterVisit(@, k, line)]
          /\ ev' = IF line = "" THEN NoEvent
                   ELSE [type |-> "log", err |-> line, node |-> k]
    /\ UNCHANGED aggVars
    /\ UNCHANGED <<enabled, mapNil, qtime, closing, chans, closedChans, wg,
                   muW, muR, ctl, wr, started, panicked, statReq>>

\* The iterations of the range come in any order. Close and Purge are only
\* called, and so only fail, on a processor that is too old.
PurgeVisit(j) ==
    \E k \in pt[j].todo, out \in VisitOutcomes :
        /\ out.purgeOK \/ out.ans # "departed" \/ TooOld(qtime[k], out.t)
        /\ PurgeVisitWith(j, k, out)

\* The range is over: the deferred Unlock runs and the loop goes round to
\* the select, where s.closing is read again.
PurgeUnlock(j) ==
    /\ panicked = "" /\ pt[j].pc = "body" /\ pt[j].todo = {}
    /\ muW' = <<>>
    /\ pt' = [pt EXCEPT ![j].pc = "select", ![j].ch = closing]
    /\ ev' = NoEvent
    /\ UNCHANGED aggVars
    /\ UNCHANGED <<enabled, mapNil, processors, np, dir, qtime, closing,
                   chans, closedChans, wg, muR, ctl, wr, started, panicked,
                   statReq>>

\* ------------------------------------------------------------ aggregators

\* A *T is <<>> when nil and <<v>> when it points to v.  The zero value of
\* protocol.FieldValue has every pointer nil.
ZeroFieldValue == [Int64Value |-> <<>>, IntValue |-> <<>>, DoubleValue |-> <<>>]

\* The integer field types; a point carries its value in the pointer of the
\* field's type (Int64Value for INT64, IntValue for INT32).
IntFieldTypes == {"INT64", "INT32"}

NoAggregator == [kind |-> "none"]

\* m[k] of a Go map: the zero value when k is not a key.
MapGet(m, k, zero) == IF k \in DOMAIN m THEN m[k] ELSE zero

\* m[k] = v of a Go map that has been made.
MapPut(m, k, v) == [x \in DOMAIN m \cup {k} |-> IF x = k THEN v ELSE m[x]]

\* NewMaxAggregator and NewMinAggregator make the outer map; then
\* InitializeFieldsMetadata sets fieldType from the series' field.
NewAggregator(kind, fieldType) ==
    [kind |-> kind, fieldType |-> fieldType, values |-> <<>>]

\* The comparison with every value taken for larger than the current one.
MaxReplacesAlways(current, value) == TRUE

\* MaxAggregator: the point's value replaces the current one when there is
\* none or when the current one is smaller.
MaxReplaces(current, value) == current = <<>> \/ current[1] < value

\* MinAggregator: the point's value replaces the current one when there is
\* none or when the current one is larger.
MinReplaces(current, value) == current = <<>> \/ current[1] > value

\* The switch on self.fieldType: the pointer of the field's type is compared
\* and replaced, the others are left alone.
SwitchFieldType(fieldType, currentValue, value, replaces) ==
    CASE fieldType = "INT64" ->
             IF replaces THEN [currentValue EXCEPT !.Int64Value = <<value>>]
                         ELSE currentValue
      [] fieldType = "INT32" ->
             IF replaces THEN [currentValue EXCEPT !.IntValue = <<value>>]
                         ELSE currentValue
      [] fieldType = "DOUBLE" ->
             IF replaces THEN [currentValue EXCEPT !.DoubleValue = <<value>>]
                         ELSE currentValue
      [] OTHER -> currentValue

\* The pointer of currentValue that the switch compares.
Compared(fieldType, currentValue) ==
    CASE fieldType = "INT64" -> currentValue.Int64Value
      [] fieldType = "INT32" -> currentValue.IntValue
      [] fieldType = "DOUBLE" -> currentValue.DoubleValue
      [] OTHER -> <<>>

\* self.values after AggregatePoint: the series' map is the one found or a
\* new one (self.values[series] is nil exactly when series is not a key),
\* and the group's entry is written back, replaced or not.
AggregatedValues(self, series, group, value) ==
    LET values == MapGet(self.values, series, <<>>)
        currentValue == MapGet(values, group, ZeroFieldValue)
        current == Compared(self.fieldType, currentValue)
        replaces == IF self.kind = "max" THEN MaxReplaces(current, value)
                                         ELSE MinReplaces(current, value)
        newValue == SwitchFieldType(self.fieldType, currentValue, value,
                                    replaces)
    IN  MapPut(self.values, series, MapPut(values, group, newValue))

\* GetValue: self.values[series][group], the zero value when either key is
\* missing.
GetValue(self, series, group) ==
    MapGet(MapGet(self.values, series, <<>>), group, ZeroFieldValue)

\* The record of the points aggregated, kept beside the aggregator.
Recorded(series, group, value) ==
    [points EXCEPT ![series][group] = @ \cup {value}]

\* MaxAggregator.AggregatePoint for a point whose field holds value.
MaxAggregatePoint(series, group, value) ==
    /\ aggregator.kind = "max"
    /\ npoints < MaxPoints
    /\ aggregator' = [aggregator EXCEPT
                        !.values = AggregatedValues(aggregator, series,
                                                    group, value)]
    /\ points' = Recorded(series, group, value)
    /\ npoints' = npoints + 1
    /\ UNCHANGED svcVars

\* MinAggregator.AggregatePoint for a point whose field holds value.
MinAggregatePoint(series, group, value) ==
    /\ aggregator.kind = "min"
    /\ npoints < MaxPoints
    /\ aggregator' = [aggregator EXCEPT
                        !.values = AggregatedValues(aggregator, series,
                                                    group, value)]
    /\ points' = Recorded(series, group, value)
    /\ npoints' = npoints + 1
    /\ UNCHANGED svcVars


\* ---------------------------------------------------------- specification

\* NewService sets cfg, statMap, Logger, shardWriter and metastore and leaves
\* mu, wg, closing and processors at their zero values: the map is nil. The
\* map of a Service whose map has been made (mapNil = FALSE) is empty.
Init ==
    /\ enabled \in BOOLEAN
    /\ mapNil \in BOOLEAN
    /\ processors = [k \in Nodes |-> 0]
    /\ np = <<>>
    /\ dir \in Roots
    /\ qtime = [k \in Nodes |-> 0]
    /\ closing = 0
    /\ chans = 0
    /\ closedChans = {}
    /\ wg = 0
    /\ muW = <<>>
    /\ muR = 0
    /\ ctl = [pc |-> "idle", opened |-> "no", closed |-> FALSE]
    /\ wr = EmptyBag
    /\ started = 0
    /\ pt = [j \in Tasks |-> IdleTask]
    /\ panicked = ""
    /\ statReq = 0
    /\ ev = NoEvent
    /\ aggregator = NoAggregator
    /\ points = [series \in SeriesNames |-> [group \in Groups |-> {}]]
    /\ npoints = 0

Next ==
    \/ OpenDisabled
    \/ OpenDirError
    \/ Open
    \/ CloseBegin
    \/ CloseWait
    \/ WSDisabled
    \/ \E ownerID \in Nodes : WSBegin(ownerID)
    \/ WSLookup
    \/ WSCreate
    \/ WSDelegate
    \/ \E j \in Tasks : PurgeExit(j)
    \/ \E j \in Tasks : PurgeTick(j)
    \/ \E j \in Tasks : PurgeLock(j)
    \/ \E j \in Tasks : PurgeVisit(j)
    \/ \E j \in Tasks : PurgeUnlock(j)

Spec == Init /\ [][Next]_vars

\* The same service when Open can be called more than once.
NextReopen == Next \/ OpenAgainDirError \/ OpenAgain

SpecReopen == Init /\ [][NextReopen]_vars

\* A query with one aggregator, max or min, over an integer field, beside a
\* service that is never opened.
InitAgg ==
    /\ enabled = FALSE
    /\ mapNil = TRUE
    /\ processors = [k \in Nodes |-> 0]
    /\ np = <<>>
    /\ dir = {}
    /\ qtime = [k \in Nodes |-> 0]
    /\ closing = 0
    /\ chans = 0
    /\ closedChans = {}
    /\ wg = 0
    /\ muW = <<>>
    /\ muR = 0
    /\ ctl = [pc |-> "idle", opened |-> "no", closed |-> FALSE]
    /\ wr = EmptyBag
    /\ started = 0
    /\ pt = [j \in Tasks |-> IdleTask]
    /\ panicked = ""
    /\ statReq = 0
    /\ ev = NoEvent
    /\ aggregator \in {NewAggregator(kind, fieldType) :
                          kind \in {"max", "min"}, fieldType \in IntFieldTypes}
    /\ points = [series \in SeriesNames |-> [group \in Groups |-> {}]]
    /\ npoints = 0

NextAgg ==
    \/ \E series \in SeriesNames, group \in Groups, value \in FieldInts :
           MaxAggregatePoint(series, group, value)
    \/ \E series \in SeriesNames, group \in Groups, value \in FieldInts :
           MinAggregatePoint(series, group, value)

SpecAgg == InitAgg /\ [][NextAgg]_vars

\* ----------------------------------------------------------------- claims

\* C1: a purge tick closes, purges or removes a processor, or so much as
\* calls Close or Purge on it, only if in that iteration the cluster
\* directory reported its node as no longer a member (no info, no error) and
\* its last-modified time was strictly older than now minus MaxAge, and it
\* does so holding the exclusive lock; a processor whose node is still a
\* member, or whose last-modified time is equal to or newer than the cutoff,
\* is left alone. (k is the entry the step took off the task's list.)
C1_PurgeOnlyDepartedAndOld ==
    [][( \/ np' # np
         \/ processors' # processors
         \/ dir' # dir
         \/ ev'.type = "log" /\ ev'.err = "failed to close node processor" )
       => \A j \in Tasks : \A k \in pt[j].todo \ pt'[j].todo :
          \A out \in VisitOutcomes :
            \/ /\ out.lmOK
               /\ out.ans = "departed"
               /\ qtime[k] < out.t - MaxAge
               /\ muW = <<"purge", j>>
               /\ muW' = muW
            \/ ~PurgeVisitWith(j, k, out)]_vars

\* C1's case: inside a tick, under the purge task's lock, a processor has
\* been closed and purged.
C1_Witness ==
    \E j \in Tasks, i \in DOMAIN np :
        /\ muW = <<"purge", j>>
        /\ np[i].node \notin pt[j].todo
        /\ np[i].st = "closed"
        /\ np[i].purged

\* C2: on an enabled, opened service, a WriteShard that reaches the creation
\* branch for an ownerID with no processor in the map, and does not return
\* an error of the new processor's Open, does not fault, and leaves in the
\* map, under ownerID, the processor it has just constructed, opened.
C2_LazyCreationSucceeds ==
    [][\A c \in BagToSet(wr), ok \in BOOLEAN :
         ( /\ WSCreateWith(c, ok)
           /\ enabled /\ ctl.opened = "nil"
           /\ processors[c.owner] = 0
           /\ ev' = NoEvent )
         => /\ panicked' = ""
            /\ processors'[c.owner] = Len(np) + 1
            /\ np'[Len(np) + 1].node = c.owner
            /\ np'[Len(np) + 1].st = "open"]_vars

\* The processors WriteShard has constructed for owner o.
LazyMade(o) == {i \in DOMAIN np : np[i].node = o /\ np[i].by = "WriteShard"}

\* C3: when callers of WriteShard have gone through the creation branch for
\* an owner, exactly one processor has been constructed for that owner, it
\* has been opened, and every such caller still in the call holds that same
\* instance.
C3_OneProcessorPerOwner ==
    \A o \in Nodes :
        (\E c \in BagToSet(wr) : c.owner = o /\ c.lazy) =>
            /\ Cardinality(LazyMade(o)) = 1
            /\ \A i \in LazyMade(o) : np[i].st # "new"
            /\ \A c \in CallsAt("delegate") :
                 c.owner = o => c.ref \in LazyMade(o)

\* C4: there is no state in which Close waits for the purge task to exit
\* while the purge task waits for the lock that Close holds.
C4_NoCloseDeadlock ==
    ~ ( /\ ctl.pc = "wait"
        /\ muW = <<"ctl">>
        /\ \E j \in Tasks : pt[j].pc = "lock" )

C7_WriteLiveOrClosed ==
    [][\A c \in CallsAt("delegate"), ok \in BOOLEAN, t \in Times :
         WSDelegateWith(c, ok, t)
         => \/ Standing(c.ref) = "live"
            \/ ev' = Returns("WriteShard", "Closed")]_vars

\* C7's case: every processor there has been is purged and out of the map,
\* and a write delegated to one of them has just returned Closed.
C7_Witness ==
    /\ ev = Returns("WriteShard", "Closed")
    /\ np # <<>>
    /\ \A i \in DOMAIN np : np[i].purged /\ processors[np[i].node] = 0

\* C8: if the membership lookup for a processor's node returns an error, the
\* processor is not closed, not purged and not removed in that iteration,
\* however old it is: the failure is logged and the entry passed over.
C8_LookupErrorKeeps ==
    [][\A j \in Tasks : \A k \in pt[j].todo :
       \A out \in {o \in VisitOutcomes : o.lmOK /\ o.ans = "error"} :
         PurgeVisitWith(j, k, out)
         => /\ UNCHANGED <<np, processors, dir>>
            /\ ev' = [type |-> "log",
                      err |-> "failed to determine if node is active",
                      node |-> k]]_vars

\* C8's case: the lookup has just failed for the node of an open processor
\* whose queue is older than the cutoff.
C8_Witness ==
    /\ ev.type = "log"
    /\ ev.err = "failed to determine if node is active"
    /\ \E t \in Times : TooOld(qtime[ev.node], t)
    /\ processors[ev.node] # 0
    /\ np[processors[ev.node]].st = "open"

\* C9: Open on a Service that NewService made, with the feature enabled,
\* does not fault, and when it returns nil the map holds one open processor
\* for every numeric child of the root directory and nothing else.
C9_OpenLoadsChildren ==
    [][\A failAt \in NumericChildren(dir) \cup {<<>>} :
         OpenWith(failAt) /\ mapNil
         => /\ panicked' = ""
            /\ ctl'.opened = "nil" =>
                 /\ {k \in Nodes : processors'[k] # 0}
                      = {ParseUint(f).val : f \in NumericChildren(dir)}
                 /\ \A k \in Nodes :
                      processors'[k] # 0 =>
                        /\ np'[processors'[k]].node = k
                        /\ np'[processors'[k]].st = "open"]_vars

\* C10: a processor whose node has departed, whose last-modified time is
\* read and is older than the cutoff, and whose Close and Purge both succeed
\* is closed, purged and out of the map when its iteration of the tick ends,
\* and is not visited again in that tick.
C10_EligiblePurged ==
    [][\A j \in Tasks : \A k \in pt[j].todo :
       \A out \in {o \in VisitOutcomes :
                    /\ o.lmOK /\ o.ans = "departed"
                    /\ qtime[k] < o.t - MaxAge
                    /\ o.closeOK /\ o.purgeOK} :
         PurgeVisitWith(j, k, out)
         => /\ np'[processors[k]].st = "closed"
            /\ np'[processors[k]].purged
            /\ processors'[k] = 0
            /\ pathforNode(k) \notin dir'
            /\ k \notin pt'[j].todo]_vars

\* C10's case: within a tick an eligible processor has been purged and its
\* entry removed, while another entry of the same tick is still to be
\* visited.
C10_Witness ==
    \E j \in Tasks, i \in DOMAIN np :
        /\ muW = <<"purge", j>>
        /\ pt[j].todo # {}
        /\ np[i].purged
        /\ processors[np[i].node] = 0
        /\ pathforNode(np[i].node) \notin dir

\* C11: a failure for one processor in a purge tick (LastModified, the
\* membership lookup, Close or Purge) does not stop the cycle: the iteration
\* that logged the failure leaves the task in the loop with every other entry
\* still to be examined and untouched, and in the state right after a
\* failure an iteration for an eligible entry whose Close and Purge succeed
\* still closes, purges and removes it.
C11_FailureDoesNotStopTick ==
    [][/\ ev'.type = "log"
          => \A j \in Tasks : \A k \in pt[j].todo \ pt'[j].todo :
             \A out \in VisitOutcomes :
               PurgeVisitWith(j, k, out)
               => /\ pt'[j].pc = "body"
                  /\ pt'[j].todo = pt[j].todo \ {k}
                  /\ muW' = <<"purge", j>>
                  /\ \A m \in pt[j].todo \ {k} :
                       /\ processors'[m] = processors[m]
                       /\ np'[processors[m]] = np[processors[m]]
                       /\ (pathforNode(m) \in dir') = (pathforNode(m) \in dir)
       /\ ev.type = "log"
          => \A j \in Tasks : \A k \in pt[j].todo :
             \A out \in {o \in VisitOutcomes :
                          /\ o.lmOK /\ o.ans = "departed"
                          /\ qtime[k] < o.t - MaxAge
                          /\ o.closeOK /\ o.purgeOK} :
               PurgeVisitWith(j, k, out)
               => /\ np'[processors[k]].st = "closed"
                  /\ np'[processors[k]].purged
                  /\ processors'[k] = 0]_vars

\* C11's case: an iteration has just logged a failure, and the tick goes on
\* with an entry still to visit whose processor is open and can be found too
\* old.
C11_Witness ==
    /\ ev.type = "log"
    /\ \E j \in Tasks :
         /\ pt[j].pc = "body"
         /\ \E m \in pt[j].todo :
              /\ m # ev.node
              /\ np[processors[m]].st = "open"
              /\ \E t \in Times : TooOld(qtime[m], t)

\* C12: with enabled = false every WriteShard returns the Disabled error and
\* changes nothing: no lock is taken, no processor is looked up, created or
\* written to, no call is left in flight, and the request and point counters
\* stay where they were.
C12_DisabledWriteShard ==
    [][/\ WSDisabled
          => /\ ev' = Returns("WriteShard", "Disabled")
             /\ UNCHANGED <<processors, np, dir, qtime, muW, muR, wr, statReq,
                            closing, closedChans, wg, pt, panicked>>
       /\ ~enabled => ~(\E ownerID \in Nodes : WSBegin(ownerID))]_vars

\* C12's case: on a disabled service on which Open has been called, the last
\* of MaxReq calls of WriteShard has just returned Disabled.
C12_Witness ==
    /\ ~enabled
    /\ ctl.opened = "nil"
    /\ started = MaxReq
    /\ ev = Returns("WriteShard", "Disabled")

\* C13: with enabled = false Open returns success and changes nothing else:
\* the root directory is neither made nor read, no processor is constructed
\* or opened, no closing channel is made and no purge task is started; and a
\* Close that follows goes through its loop without an error, finds nothing
\* to wait for, and returns success.
C13_DisabledOpen ==
    [][/\ OpenDisabled
          => /\ ctl'.opened = "nil"
             /\ ev' = Returns("Open", "nil")
             /\ UNCHANGED <<processors, np, dir, qtime, closing, chans,
                            closedChans, wg, pt, muW, muR, panicked>>
       /\ ~enabled /\ CloseBegin
          => /\ ctl'.pc = "wait"
             /\ wg' = 0
             /\ panicked' = ""
             /\ ev' = NoEvent
             /\ UNCHANGED <<processors, np, dir, closing, closedChans, pt>>
       /\ ~enabled /\ CloseWait
          => /\ ctl'.pc = "idle"
             /\ muW' = <<>>
             /\ ev' = Returns("Close", "nil")
             /\ UNCHANGED <<processors, np, dir, closing, closedChans, pt>>]_vars

\* C13's case: a disabled service on which Open, then Close have returned.
C13_Witness ==
    /\ ~enabled
    /\ ctl = [pc |-> "idle", opened |-> "nil", closed |-> TRUE]
    /\ ev = Returns("Close", "nil")

\* C14: Close is idempotent: a Close called after a Close that returned nil
\* (with no Open in between) does not fault, in particular does not close
\* the closing channel again, meets no processor error and nothing to wait
\* for, returns nil, and leaves the map, the processors, the disk, the
\* channel and the purge task as the first Close left them.
C14_CloseIdempotent ==
    [][/\ ctl.closed /\ CloseBegin
          => /\ panicked' = ""
             /\ ctl'.pc = "wait"
             /\ wg' = 0
             /\ UNCHANGED <<processors, np, dir, closing, closedChans, pt>>
       /\ ctl.closed /\ CloseWait
          => /\ ev' = Returns("Close", "nil")
             /\ ctl'.closed
             /\ closing' = 0
             /\ UNCHANGED <<processors, np, dir, closing, closedChans, pt,
                            wg>>]_vars

\* C14's case: on an enabled service that Open gave processors and a purge
\* task, and that a Close has closed, another Close has gone through its
\* loop and is at s.wg.Wait().
C14_Witness ==
    /\ enabled
    /\ ctl = [pc |-> "wait", opened |-> "nil", closed |-> TRUE]
    /\ Keys # {}
    /\ closedChans # {}

InLookup == BagCardinality([c \in CallsAt("lookup") |-> wr[c]])

\* C16: WriteShard takes the exclusive lock only after its read-locked lookup
\* found no processor for ownerID; a call whose lookup finds one holds only
\* the read lock, gives it up before it delegates, and delegates holding no
\* lock, so the read lock is held by exactly the calls inside the lookup,
\* however many, and never together with the exclusive lock. A processor is
\* constructed, closed, purged or removed from the map only by a step that
\* holds the exclusive lock: the purge task's iteration inside its locked
\* range, or a step that takes the free lock for itself.
C16_LockDiscipline ==
    [][/\ muR' = InLookup'
       /\ muW' # <<>> => muR' = 0
       /\ \A c \in CallsAt("lookup") :
            WSLookupWith(c)
            => /\ muW = <<>> /\ muW' = <<>>
               /\ muR' = muR - 1
               /\ IF processors[c.owner] # 0
                  THEN Call("delegate", c.owner, processors[c.owner], FALSE)
                         \in DOMAIN wr'
                  ELSE Call("create", c.owner, 0, FALSE) \in DOMAIN wr'
       /\ \/ UNCHANGED <<muW, muR>>
          \/ \A c \in CallsAt("delegate"), ok \in BOOLEAN, t \in Times :
               ~WSDelegateWith(c, ok, t)
       /\ (np' # np \/ processors' # processors)
          => /\ muR = 0
             /\ \/ muW = <<>>
                \/ \E j \in Tasks : muW = <<"purge", j>> /\ PurgeVisit(j)
       /\ \A j \in Tasks : muW = <<"purge", j>> \/ ~PurgeVisit(j)]_vars

\* C16's case: two calls for owners that have a processor are inside the
\* lookup at the same time, both holding the read lock.
C16_Witness ==
    /\ muR = 2
    /\ InLookup = 2
    /\ \A c \in CallsAt("lookup") : processors[c.owner] # 0

\* C17: for an eligible processor the purge task calls Close, then Purge,
\* then removes the entry: Purge is called only when Close has just
\* succeeded, so only a closed processor is ever purged; the entry is removed
\* only when both have succeeded; and when Close fails, or Close succeeds and
\* Purge fails, the processor stays in the map.
C17_CloseThenPurgeThenRemove ==
    [][\A j \in Tasks : \A k \in pt[j].todo \ pt'[j].todo :
       \A out \in VisitOutcomes :
         \/ ~PurgeVisitWith(j, k, out)
         \/ LET i == processors[k]
                c == NPClose(np[i], out.closeOK)
                g == NPPurge(c.p, out.purgeOK)
                r == Retire(np[i], out.closeOK, out.purgeOK)
                eligible == /\ out.lmOK /\ out.ans = "departed"
                            /\ TooOld(qtime[k], out.t)
            IN /\ processors'[k] = 0
                  => /\ eligible /\ c.err = "" /\ g.err = ""
                     /\ np'[i].st = "closed" /\ np'[i].purged
               /\ np'[i].purged /\ ~np[i].purged
                  => eligible /\ c.err = "" /\ np'[i].st = "closed"
               /\ eligible
                  => /\ r.calls = IF c.err = "" THEN <<"Close", "Purge">>
                                  ELSE <<"Close">>
                     /\ c.err # ""
                        => /\ np'[i] = np[i]
                           /\ processors'[k] = i
                           /\ dir' = dir
                     /\ c.err = "" /\ g.err # ""
                        => /\ np'[i] = c.p
                           /\ processors'[k] = i
                           /\ dir' = dir]_vars

\* C17's case: in a tick, Close has succeeded on an eligible processor and
\* Purge has failed: the processor is closed, not purged, its directory is
\* there and its entry is still in the map.
C17_Witness ==
    /\ ev.type = "log"
    /\ ev.err = "failed to close node processor"
    /\ processors[ev.node] # 0
    /\ np[processors[ev.node]].st = "closed"
    /\ ~np[processors[ev.node]].purged
    /\ pathforNode(ev.node) \in dir

\* C18: once Close has returned nil on an enabled, opened service, and until
\* a later Open, no processor is constructed and none is opened: a WriteShard
\* for an ownerID with no entry in the map makes no new processor.
C18_NoCreationAfterClose ==
    [][enabled /\ ctl.opened = "nil" /\ ctl.closed /\ ctl'.closed
       => /\ Len(np') = Len(np)
          /\ \A i \in DOMAIN np :
               np'[i].st = "open" => np[i].st = "open"]_vars

\* The purge tasks that have been started and have not returned.
RunningTasks == {j \in Tasks : pt[j].pc \notin {"none", "done"}}

\* C19: whatever the sequence of Open and Close calls on an enabled service,
\* at most one purge task is running at any time, and when Close has
\* returned nil every purge task started before it has returned.
C19_AtMostOnePurgeTask ==
    enabled
    => /\ Cardinality(RunningTasks) <= 1
       /\ ctl.closed => RunningTasks = {}

\* The largest and the smallest member of a non-empty set of integers.
SetMax(S) == CHOOSE x \in S : \A y \in S : y <= x
SetMin(S) == CHOOSE x \in S : \A y \in S : x <= y

\* What GetValue holds for the aggregator's integer field: <<>> when nil.
Held(self, series, group) ==
    Compared(self.fieldType, GetValue(self, series, group))

\* C20: for a MaxAggregator (MinAggregator) with an integer field type, once
\* AggregatePoint has been called for a (series, group), GetValue(series,
\* group) holds the maximum (minimum) of the field values aggregated for it,
\* and a call of AggregatePoint for one (series, group) leaves the value of
\* every other (series, group) as it was.
C20_MaxMinAggregate ==
    /\ [](\A series \in SeriesNames, group \in Groups :
             (aggregator.kind \in {"max", "min"}
              /\ aggregator.fieldType \in IntFieldTypes
              /\ points[series][group] # {})
             => Held(aggregator, series, group)
                    = <<IF aggregator.kind = "max"
                        THEN SetMax(points[series][group])
                        ELSE SetMin(points[series][group])>>)
    /\ [][\A series \in SeriesNames, group \in Groups, value \in FieldInts :
             (MaxAggregatePoint(series, group, value)
              \/ MinAggregatePoint(series, group, value))
             => \A s2 \in SeriesNames, g2 \in Groups :
                    <<s2, g2>> # <<series, group>>
                    => GetValue(aggregator', s2, g2)
                           = GetValue(aggregator, s2, g2)]_vars

\* A MaxAggregator has been given a smaller value after a larger one or a
\* larger one after a smaller one for one (series, group), holds the larger,
\* and holds a value for another (series, group) as well.
C20_Witness ==
    /\ aggregator.kind = "max"
    /\ aggregator.fieldType \in IntFieldTypes
    /\ \E series \in SeriesNames, group \in Groups :
          /\ Cardinality(points[series][group]) >= 2
          /\ Held(aggregator, series, group)
                 = <<SetMax(points[series][group])>>
          /\ \E s2 \in SeriesNames, g2 \in Groups :
                /\ <<s2, g2>> # <<series, group>>
                /\ points[s2][g2] # {}
                /\ Held(aggregator, s2, g2) # <<>>

====
